---- MODULE Spec2Model ----
(***************************************************************************)
(* A model of the ZIP-to-repository push pipeline of src/github.py          *)
(* (GitHubManager) and of the model caller of src/main.py (get_completion,  *)
(* get_response).                                                           *)
(*                                                                          *)
(* Bytes are integers 0..255, text is a sequence of Unicode code points,    *)
(* and a str that the code builds (a path, a base64 payload) is the         *)
(* sequence of its code points.                                             *)
(***************************************************************************)
EXTENDS Integers, Sequences, FiniteSets, TLC

VARIABLES
    \* ---- GitHubManager._is_binary on its own
    bin_content,        \* the bytes handed to _is_binary
    bin_pc,             \* "input" | "classified"
    bin_result,         \* the value _is_binary returned
    \* ---- GitHubManager._clean_code_content on its own
    rx_content,         \* the text handed to _clean_code_content
    rx_ext,             \* the file_extension handed to it
    rx_pc,              \* "input" | "once" | "twice"
    rx_once,            \* _clean_code_content(rx_content, rx_ext)
    rx_twice,           \* _clean_code_content(rx_once, rx_ext)
    \* ---- GitHubManager.push_zip_to_repo
    zip_valid,          \* whether zip_content is a ZIP container
    archive,            \* zip_ref.infolist(): entries [filename, data], in order
    status_container,   \* whether a progress sink was passed (TRUE) or None
    pc,                 \* "call" | "provision" | "iterate" | "returned" | "raised"
    total_files,        \* the local of line 112
    success_count,      \* the local of line 113
    error_count,        \* the local of line 114
    current_file,       \* the local of line 132
    next_entry,         \* the index the for loop of line 134 is at; 0 before it
    status_placeholder, \* the local of line 152: "unbound" | "bound"
    creates,            \* create-repository requests issued (line 43)
    html_url,           \* what create_repository returned: "unset" | "url" | "None"
    writes,             \* file writes issued (line 93), in order, as
                        \* [entry, path, content, encoding, acked]
    outcomes,           \* how each iteration of the loop ended, in order
    result,             \* "none" | "True" | "False" | "BadZipFile"
    \* ---- get_completion and get_response of src/main.py
    llm_error,          \* whether bedrock.converse raises ClientError
    llm_blocks,         \* response['output']['message']['content']
    llm_pc,             \* "call" | "completed" | "responded"
    llm_completion,     \* how get_completion ended
    llm_response        \* how get_response ended

bin_vars == <<bin_content, bin_pc, bin_result>>

rx_vars == <<rx_content, rx_ext, rx_pc, rx_once, rx_twice>>

push_vars ==
    <<zip_valid, archive, status_container, pc, total_files, success_count,
      error_count, current_file, next_entry, status_placeholder, creates,
      html_url, writes, outcomes, result>>

llm_vars == <<llm_error, llm_blocks, llm_pc, llm_completion, llm_response>>

vars == <<bin_vars, rx_vars, push_vars, llm_vars>>

(***************************************************************************)
(* Each specification below runs one part of the program; the other parts   *)
(* are idle in it.                                                          *)
(***************************************************************************)
BinIdle ==
    /\ bin_content = <<>>
    /\ bin_pc = "idle"
    /\ bin_result = FALSE

RxIdle ==
    /\ rx_content = <<>>
    /\ rx_ext = <<>>
    /\ rx_pc = "idle"
    /\ rx_once = <<>>
    /\ rx_twice = <<>>

PushIdle ==
    /\ zip_valid = FALSE
    /\ archive = <<>>
    /\ status_container = FALSE
    /\ pc = "idle"
    /\ total_files = 0
    /\ success_count = 0
    /\ error_count = 0
    /\ current_file = 0
    /\ next_entry = 0
    /\ status_placeholder = "unbound"
    /\ creates = 0
    /\ html_url = "unset"
    /\ writes = <<>>
    /\ outcomes = <<>>
    /\ result = "none"

\* how a call ended: kind is "pending", "dict" (a dict was returned, with
\* these request_type and response), "None" (None was returned) or the name
\* of the exception raised
Ended(kind, request_type, response) ==
    [kind |-> kind, request_type |-> request_type, response |-> response]

NoValue == Ended("pending", "", "")

LlmIdle ==
    /\ llm_error = FALSE
    /\ llm_blocks = <<>>
    /\ llm_pc = "idle"
    /\ llm_completion = NoValue
    /\ llm_response = NoValue

(***************************************************************************)
(* Bounds of the model.                                                     *)
(***************************************************************************)
\* longest byte sequence drawn freely from ByteSamples
MaxShort == 3
\* longest byte sequence made of a run of text bytes and a run of other bytes
MaxLong == 20
\* most pieces a free text handed to the redactor is made of
MaxPieces == 3
\* most entries of an archive
MaxEntries == 3
\* most content blocks of a model response
MaxBlocks == 3

(***************************************************************************)
(* Generic sequence helpers.                                                *)
(***************************************************************************)
RECURSIVE SeqsUpTo(_, _)
SeqsUpTo(S, n) ==
    IF n = 0 THEN {<<>>}
    ELSE LET shorter == SeqsUpTo(S, n - 1)
         IN  shorter \cup {Append(s, x) : s \in {t \in shorter : Len(t) = n - 1}, x \in S}

Repeat(x, n) == [i \in 1..n |-> x]

(***************************************************************************)
(* Content Classifier: GitHubManager._is_binary (src/github.py:71-79).      *)
(***************************************************************************)
\* one byte of the list comprehension's filter, line 78
IsTextByte(b) == (32 <= b /\ b <= 127) \/ b \in {9, 10, 13}

\* len([b for b in content if ...]), line 78
RECURSIVE TextChars(_)
TextChars(content) ==
    IF content = <<>> THEN 0
    ELSE (IF IsTextByte(Head(content)) THEN 1 ELSE 0) + TextChars(Tail(content))

\* b'\x00' in content, line 74
RECURSIVE HasNull(_)
HasNull(content) ==
    IF content = <<>> THEN FALSE
    ELSE Head(content) = 0 \/ HasNull(Tail(content))

\* the comparison written <= instead of <
RatioBelowThreshold_Inclusive(text_chars, length) == 10 * text_chars <= 7 * length

\* text_chars / len(content) < 0.7, line 79.  The quotient of two integers
\* below 2^50 is a correctly rounded double, so it is below the double 0.7
\* exactly when text_chars/len < 7/10 over the rationals.
RatioBelowThreshold(text_chars, length) == 10 * text_chars < 7 * length

_is_binary(content) ==
    IF HasNull(content) THEN TRUE
    ELSE IF content # <<>>
         THEN RatioBelowThreshold(TextChars(content), Len(content))
         ELSE FALSE

\* the rule of the Content Classifier, stated over the whole sequence
RefTextCount(s) ==
    Cardinality({i \in 1..Len(s) : s[i] \in (32..127) \cup {9, 10, 13}})

RefIsBinary(s) ==
    \/ \E i \in 1..Len(s) : s[i] = 0
    \/ /\ \A i \in 1..Len(s) : s[i] # 0
       /\ Len(s) > 0
       /\ 10 * RefTextCount(s) < 7 * Len(s)

(***************************************************************************)
(* Secret Redactor: GitHubManager._clean_code_content                       *)
(* (src/github.py:18-32).                                                   *)
(***************************************************************************)
\* sensitive_var = "authKey", line 20
sensitive_var == <<97, 117, 116, 104, 75, 101, 121>>

ext_kt   == <<46, 107, 116>>            \* ".kt"
ext_java == <<46, 106, 97, 118, 97>>    \* ".java"
ext_py   == <<46, 112, 121>>            \* ".py"
ext_js   == <<46, 106, 115>>            \* ".js"
ext_ts   == <<46, 116, 115>>            \* ".ts"

\* 'System.getenv("REPLACEMENT_KEY")'
repl_jvm ==
    <<83, 121, 115, 116, 101, 109, 46, 103, 101, 116, 101, 110, 118, 40, 34,
      82, 69, 80, 76, 65, 67, 69, 77, 69, 78, 84, 95, 75, 69, 89, 34, 41>>
\* 'os.getenv("REPLACEMENT_KEY")'
repl_py ==
    <<111, 115, 46, 103, 101, 116, 101, 110, 118, 40, 34,
      82, 69, 80, 76, 65, 67, 69, 77, 69, 78, 84, 95, 75, 69, 89, 34, 41>>
\* 'process.env.REPLACEMENT_KEY'
repl_node ==
    <<112, 114, 111, 99, 101, 115, 115, 46, 101, 110, 118, 46,
      82, 69, 80, 76, 65, 67, 69, 77, 69, 78, 84, 95, 75, 69, 89>>

\* replacements.get(file_extension), lines 21-27 and 30; <<>> stands for None
replacements(file_extension) ==
    CASE file_extension = ext_kt   -> repl_jvm
      [] file_extension = ext_java -> repl_jvm
      [] file_extension = ext_py   -> repl_py
      [] file_extension = ext_js   -> repl_node
      [] file_extension = ext_ts   -> repl_node
      [] OTHER -> <<>>

\* \s of a str pattern: the code points str.isspace() accepts
IsSpace(c) ==
    c \in {9, 10, 11, 12, 13, 28, 29, 30, 31, 32, 133, 160, 5760, 8232, 8233,
           8239, 8287, 12288} \cup (8192..8202)

\* ["\'] of the pattern
IsQuote(c) == c \in {34, 39}

\* . of the pattern (no DOTALL): anything but a line feed
IsDot(c) == c # 10

\* \s* (greedy): the first position at or after i that holds no whitespace
RECURSIVE SkipSpace(_, _)
SkipSpace(t, i) ==
    IF i <= Len(t) /\ IsSpace(t[i]) THEN SkipSpace(t, i + 1) ELSE i

\* \S+ (greedy) from i, where t[i] is not whitespace: one past the run's end
RECURSIVE SkipNonSpace(_, _)
SkipNonSpace(t, i) ==
    IF i <= Len(t) /\ ~IsSpace(t[i]) THEN SkipNonSpace(t, i + 1) ELSE i

\* .*?["\'] (lazy) from i: the position of the first quote reached through
\* characters . matches, or 0 when a line feed or the end comes first
RECURSIVE LazyToQuote(_, _)
LazyToQuote(t, i) ==
    IF i > Len(t) THEN 0
    ELSE IF IsQuote(t[i]) THEN i
    ELSE IF IsDot(t[i]) THEN LazyToQuote(t, i + 1)
    ELSE 0

\* the literal authKey at position i
LiteralAt(t, i) ==
    /\ i + Len(sensitive_var) - 1 <= Len(t)
    /\ \A k \in 1..Len(sensitive_var) : t[i + k - 1] = sensitive_var[k]

\* group 2, (["\'].*?["\']|\S+), at v where t[v] is not whitespace: one past
\* its end.  The quoted alternative is tried first; \S+ is the fallback.
ValueEnd(t, v) ==
    LET q == IF IsQuote(t[v]) THEN LazyToQuote(t, v + 1) ELSE 0
    IN  IF q # 0 THEN q + 1 ELSE SkipNonSpace(t, v)

\* pattern.match at position i, line 29: [found, value (start of group 2),
\* end (one past the match)].  Both \s* are followed by something that is not
\* whitespace, so giving back whitespace on backtracking never helps.
MatchAt(t, i) ==
    LET none == [found |-> FALSE, value |-> 0, end |-> 0]
    IN  IF ~LiteralAt(t, i) THEN none
        ELSE LET j == SkipSpace(t, i + Len(sensitive_var))
             IN  IF j > Len(t) \/ t[j] # 61 THEN none
                 ELSE LET v == SkipSpace(t, j + 1)
                      IN  IF v > Len(t) THEN none
                          ELSE [found |-> TRUE, value |-> v, end |-> ValueEnd(t, v)]

\* pattern.sub(..., count=1): only the first match is replaced
RECURSIVE SubFrom_FirstOnly(_, _, _)
SubFrom_FirstOnly(t, i, replacement) ==
    IF i > Len(t) THEN <<>>
    ELSE LET m == MatchAt(t, i)
         IN  IF m.found
             THEN SubSeq(t, i, m.value - 1) \o replacement
                      \o SubSeq(t, m.end, Len(t))
             ELSE <<t[i]>> \o SubFrom_FirstOnly(t, i + 1, replacement)

\* pattern.sub(rf'\1{replacement}', content) from position i, line 31:
\* leftmost matches, none overlapping, each replaced by group 1 and the
\* replacement
RECURSIVE SubFrom(_, _, _)
SubFrom(t, i, replacement) ==
    IF i > Len(t) THEN <<>>
    ELSE LET m == MatchAt(t, i)
         IN  IF m.found
             THEN SubSeq(t, i, m.value - 1) \o replacement
                      \o SubFrom(t, m.end, replacement)
             ELSE <<t[i]>> \o SubFrom(t, i + 1, replacement)

_clean_code_content(content, file_extension) ==
    LET replacement == replacements(file_extension)
    IN  IF replacement # <<>>
        THEN SubFrom(content, 1, replacement)
        ELSE content

(***************************************************************************)
(* Library conversions the File Uploader goes through.                      *)
(***************************************************************************)
\* the base64 alphabet: A-Z a-z 0-9 + /
B64Char(i) ==
    IF i < 26 THEN 65 + i
    ELSE IF i < 52 THEN 97 + (i - 26)
    ELSE IF i < 62 THEN 48 + (i - 52)
    ELSE IF i = 62 THEN 43
    ELSE 47

\* base64.b64encode(data).decode('ascii'), lines 216, 225 and 230: three bytes
\* give four characters; a last group of one or two bytes is padded with =
RECURSIVE b64encode(_)
b64encode(data) ==
    IF data = <<>> THEN <<>>
    ELSE IF Len(data) = 1
    THEN LET n == data[1] * 65536
         IN  <<B64Char(n \div 262144), B64Char((n \div 4096) % 64), 61, 61>>
    ELSE IF Len(data) = 2
    THEN LET n == data[1] * 65536 + data[2] * 256
         IN  <<B64Char(n \div 262144), B64Char((n \div 4096) % 64),
               B64Char((n \div 64) % 64), 61>>
    ELSE LET n == data[1] * 65536 + data[2] * 256 + data[3]
         IN  <<B64Char(n \div 262144), B64Char((n \div 4096) % 64),
               B64Char((n \div 64) % 64), B64Char(n % 64)>>
                 \o b64encode(SubSeq(data, 4, Len(data)))

IsCont(b) == 128 <= b /\ b <= 191

\* how many bytes the UTF-8 sequence at the head of data takes, 0 when the
\* head is no well-formed sequence (strict decoding: no overlong forms, no
\* surrogates, nothing above U+10FFFF)
Utf8Width(data) ==
    LET n == Len(data)
        b1 == data[1]
        c2 == n >= 2 /\ IsCont(data[2])
        c3 == n >= 3 /\ IsCont(data[3])
        c4 == n >= 4 /\ IsCont(data[4])
    IN  IF b1 < 128 THEN 1
        ELSE IF 194 <= b1 /\ b1 <= 223 THEN (IF c2 THEN 2 ELSE 0)
        ELSE IF b1 = 224 THEN (IF c2 /\ data[2] >= 160 /\ c3 THEN 3 ELSE 0)
        ELSE IF b1 = 237 THEN (IF c2 /\ data[2] <= 159 /\ c3 THEN 3 ELSE 0)
        ELSE IF 225 <= b1 /\ b1 <= 239 THEN (IF c2 /\ c3 THEN 3 ELSE 0)
        ELSE IF b1 = 240 THEN (IF c2 /\ data[2] >= 144 /\ c3 /\ c4 THEN 4 ELSE 0)
        ELSE IF b1 = 244 THEN (IF c2 /\ data[2] <= 143 /\ c3 /\ c4 THEN 4 ELSE 0)
        ELSE IF 241 <= b1 /\ b1 <= 243 THEN (IF c2 /\ c3 /\ c4 THEN 4 ELSE 0)
        ELSE 0

\* the code point of the w-byte sequence at the head of data
Utf8CodePoint(data, w) ==
    IF w = 1 THEN data[1]
    ELSE IF w = 2 THEN (data[1] - 192) * 64 + (data[2] - 128)
    ELSE IF w = 3 THEN (data[1] - 224) * 4096 + (data[2] - 128) * 64 + (data[3] - 128)
    ELSE (data[1] - 240) * 262144 + (data[2] - 128) * 4096
             + (data[3] - 128) * 64 + (data[4] - 128)

\* content.decode('utf-8'), line 222: [ok, text]; ok = FALSE stands for
\* UnicodeDecodeError
RECURSIVE utf8_decode(_)
utf8_decode(data) ==
    IF data = <<>> THEN [ok |-> TRUE, text |-> <<>>]
    ELSE LET w == Utf8Width(data)
         IN  IF w = 0 THEN [ok |-> FALSE, text |-> <<>>]
             ELSE LET rest == utf8_decode(SubSeq(data, w + 1, Len(data)))
                  IN  IF rest.ok
                      THEN [ok |-> TRUE, text |-> <<Utf8CodePoint(data, w)>> \o rest.text]
                      ELSE rest

\* cleaned_content.encode('utf-8'), line 225
RECURSIVE utf8_encode(_)
utf8_encode(text) ==
    IF text = <<>> THEN <<>>
    ELSE LET c == Head(text)
             bytes ==
                 IF c < 128 THEN <<c>>
                 ELSE IF c < 2048 THEN <<192 + (c \div 64), 128 + (c % 64)>>
                 ELSE IF c < 65536
                 THEN <<224 + (c \div 4096), 128 + ((c \div 64) % 64), 128 + (c % 64)>>
                 ELSE <<240 + (c \div 262144), 128 + ((c \div 4096) % 64),
                        128 + ((c \div 64) % 64), 128 + (c % 64)>>
         IN  bytes \o utf8_encode(Tail(text))

\* str.rfind of one character: the last position of c in p, 0 when absent
RECURSIVE RFind(_, _)
RFind(p, c) ==
    IF p = <<>> THEN 0
    ELSE IF p[Len(p)] = c THEN Len(p)
    ELSE RFind(SubSeq(p, 1, Len(p) - 1), c)

\* os.path.splitext(file_path)[1], line 223: from the last dot of the last
\* path component, unless that component holds only dots before it
splitext_ext(p) ==
    LET sep == RFind(p, 47)
        dot == RFind(p, 46)
    IN  IF dot > sep /\ \E k \in (sep + 1)..(dot - 1) : p[k] # 46
        THEN SubSeq(p, dot, Len(p))
        ELSE <<>>

\* path.split('/'), line 198
RECURSIVE Split(_)
Split(path) ==
    IF \A k \in 1..Len(path) : path[k] # 47 THEN <<path>>
    ELSE LET k == CHOOSE i \in 1..Len(path) :
                      path[i] = 47 /\ \A j \in 1..(i - 1) : path[j] # 47
         IN  <<SubSeq(path, 1, k - 1)>> \o Split(SubSeq(path, k + 1, Len(path)))

\* '/'.join(parts), line 200
RECURSIVE Join(_)
Join(parts) ==
    IF parts = <<>> THEN <<>>
    ELSE IF Len(parts) = 1 THEN parts[1]
    ELSE parts[1] \o <<47>> \o Join(Tail(parts))

\* the leading segment never stripped
FirstPartIsRepo_Never(parts, repo_name) == FALSE

\* the comparison of line 199
FirstPartIsRepo(parts, repo_name) == parts # <<>> /\ parts[1] = repo_name

\* GitHubManager._clean_file_path, lines 196-201
_clean_file_path(path, repo_name) ==
    LET parts == Split(path)
    IN  IF FirstPartIsRepo(parts, repo_name)
        THEN Join(Tail(parts))
        ELSE path

(***************************************************************************)
(* File Uploader: GitHubManager._process_file (src/github.py:203-238) and   *)
(* create_file_with_encoding (81-98).                                       *)
(***************************************************************************)
\* line 222: whether content.decode('utf-8') returns
DecodesAsText(content) == utf8_decode(content).ok

\* the binary check of line 213 left out: every entry takes the text path
EncodedContent_NoBinaryCheck(content, file_path) ==
    IF DecodesAsText(content)
    THEN b64encode(utf8_encode(_clean_code_content(utf8_decode(content).text,
                                                   splitext_ext(file_path))))
    ELSE b64encode(content)

\* lines 212-231: the payload _process_file builds for an entry
EncodedContent(content, file_path) ==
    IF _is_binary(content)
    THEN b64encode(content)
    ELSE IF DecodesAsText(content)
    THEN LET decoded_content == utf8_decode(content).text
             file_ext == splitext_ext(file_path)
             cleaned_content == _clean_code_content(decoded_content, file_ext)
         IN  b64encode(utf8_encode(cleaned_content))
    ELSE b64encode(content)

\* the outcomes of one call of _process_file: zip_ref.read (line 207) raises,
\* or the PUT of line 93 is acknowledged, or it raises a RequestException
ProcessOutcomes == {"uploaded", "remote_error", "read_error"}

\* the request create_file_with_encoding sends, lines 85-93, for entry k
WriteRequest(k, file_path, content, acked) ==
    [entry |-> k, path |-> file_path, content |-> content,
     encoding |-> "base64", acked |-> acked]

(***************************************************************************)
(* Archive Walker: GitHubManager.push_zip_to_repo (src/github.py:101-193).  *)
(***************************************************************************)
\* ZipInfo.is_dir(): the name ends with a slash
is_dir(file_info) ==
    file_info.filename # <<>> /\ file_info.filename[Len(file_info.filename)] = 47

\* line 118: sum(1 for f in zip_ref.infolist() if not f.is_dir())
RECURSIVE CountFiles(_)
CountFiles(infolist) ==
    IF infolist = <<>> THEN 0
    ELSE (IF is_dir(Head(infolist)) THEN 0 ELSE 1) + CountFiles(Tail(infolist))

\* an entry that ended in an exception counted nowhere
CountsAfter_ExceptionUncounted(succ, err, outcome) ==
    IF outcome = "uploaded"
    THEN [success_count |-> succ + 1, error_count |-> err]
    ELSE IF outcome = "remote_error"
    THEN [success_count |-> succ, error_count |-> err + 1]
    ELSE [success_count |-> succ, error_count |-> err]

\* lines 159-172: the counters after an iteration that ended with `outcome`
\* ("unbound_error": the read of status_placeholder at line 157 raised)
CountsAfter(succ, err, outcome) ==
    IF outcome = "uploaded"
    THEN [success_count |-> succ + 1, error_count |-> err]
    ELSE [success_count |-> succ, error_count |-> err + 1]

\* a first pass that does not open the archive
FirstPassRaises_Never(valid) == FALSE

\* lines 117-118: ZipFile(...) raises BadZipFile on bytes that are no archive
FirstPassRaises(valid) == ~valid

\* lines 116-118: the first pass over the archive; it runs outside any try
OpenAndCount ==
    /\ pc = "call"
    /\ IF FirstPassRaises(zip_valid)
       THEN /\ pc' = "raised"
            /\ result' = "BadZipFile"
            /\ UNCHANGED total_files
       ELSE /\ pc' = "provision"
            /\ total_files' = CountFiles(archive)
            /\ UNCHANGED result
    /\ UNCHANGED <<zip_valid, archive, status_container, success_count,
                   error_count, current_file, next_entry, status_placeholder,
                   creates, html_url, writes, outcomes, bin_vars, rx_vars, llm_vars>>

\* the result of create_repository not looked at
AbortsOnCreateFailure_Never(url) == FALSE

\* line 123: whether the push goes on after create_repository returned
\* html_url (a URL, truthy) or None
AbortsOnCreateFailure(url) == url = "None"

\* lines 120-132: create_repository (34-48) answers with the URL or, on a
\* RequestException, None; then the archive is opened again inside the try
Provision ==
    /\ pc = "provision"
    /\ creates' = creates + 1
    /\ html_url' \in {"url", "None"}
    /\    IF AbortsOnCreateFailure(html_url')
          THEN /\ pc' = "returned"
               /\ result' = "False"
               /\ UNCHANGED <<current_file, next_entry>>
          ELSE IF ~zip_valid
          THEN \* line 130 raises BadZipFile, caught at line 186
               /\ pc' = "returned"
               /\ result' = "False"
               /\ UNCHANGED <<current_file, next_entry>>
          ELSE /\ pc' = "iterate"
               /\ current_file' = 0
               /\ next_entry' = 1
               /\ UNCHANGED result
    /\ UNCHANGED <<zip_valid, archive, status_container, total_files,
                   success_count, error_count, status_placeholder, writes,
                   outcomes, bin_vars, rx_vars, llm_vars>>

\* lines 135-136
SkipDirectory ==
    /\ pc = "iterate"
    /\ next_entry <= Len(archive)
    /\ is_dir(archive[next_entry])
    /\ next_entry' = next_entry + 1
    /\ outcomes' = Append(outcomes, "directory")
    /\ UNCHANGED <<zip_valid, archive, status_container, pc, total_files,
                   success_count, error_count, current_file,
                   status_placeholder, creates, html_url, writes, result,
                   bin_vars, rx_vars, llm_vars>>

\* lines 138-141
SkipEmptyPath(repo_name) ==
    /\ pc = "iterate"
    /\ next_entry <= Len(archive)
    /\ ~is_dir(archive[next_entry])
    /\ _clean_file_path(archive[next_entry].filename, repo_name) = <<>>
    /\ current_file' = current_file + 1
    /\ next_entry' = next_entry + 1
    /\ outcomes' = Append(outcomes, "empty_path")
    /\ UNCHANGED <<zip_valid, archive, status_container, pc, total_files,
                   success_count, error_count, status_placeholder, creates,
                   html_url, writes, result, bin_vars, rx_vars, llm_vars>>

\* an exception in one entry left to the outer except of line 190
PcAfterEntry_AbortOnException(outcome) ==
    IF outcome \in {"read_error", "unbound_error"} THEN "returned" ELSE "iterate"

\* what the iteration goes to after an entry ended with `outcome`: the
\* except of line 168 continues the loop
PcAfterEntry(outcome) == "iterate"

\* lines 138-172: one entry that is uploaded.  With no sink the name
\* status_placeholder is never bound, and building the argument list of
\* line 156-157 raises UnboundLocalError before _process_file is entered.
ProcessEntry(repo_name) ==
    /\ pc = "iterate"
    /\ next_entry <= Len(archive)
    /\ ~is_dir(archive[next_entry])
    /\ LET file_info == archive[next_entry]
           file_path == _clean_file_path(file_info.filename, repo_name)
           bound == IF status_container THEN "bound" ELSE status_placeholder
       IN  /\ file_path # <<>>
           /\ current_file' = current_file + 1
           /\ status_placeholder' = bound
           /\ \E drawn \in ProcessOutcomes :
                 LET outcome == IF bound = "unbound" THEN "unbound_error" ELSE drawn
                     counts == CountsAfter(success_count, error_count, outcome)
                 IN  /\ writes' =
                           IF outcome \in {"uploaded", "remote_error"}
                           THEN Append(writes,
                                       WriteRequest(next_entry, file_path,
                                                    EncodedContent(file_info.data, file_path),
                                                    outcome = "uploaded"))
                           ELSE writes
                     /\ success_count' = counts.success_count
                     /\ error_count' = counts.error_count
                     /\ outcomes' = Append(outcomes, outcome)
                     /\ pc' = PcAfterEntry(outcome)
                     /\ result' = IF pc' = "returned" THEN "False" ELSE result
           /\ next_entry' = next_entry + 1
    /\ UNCHANGED <<zip_valid, archive, status_container, total_files, creates,
                   html_url, bin_vars, rx_vars, llm_vars>>

\* lines 174-184
Finish ==
    /\ pc = "iterate"
    /\ next_entry > Len(archive)
    /\ pc' = "returned"
    /\ result' = "True"
    /\ UNCHANGED <<zip_valid, archive, status_container, total_files,
                   success_count, error_count, current_file, next_entry,
                   status_placeholder, creates, html_url, writes, outcomes,
                   bin_vars, rx_vars, llm_vars>>

(***************************************************************************)
(* The archives pushed.                                                     *)
(***************************************************************************)
\* the repository name: "r"
RepoName == <<114>>

\* authKey="k";
SecretText == sensitive_var \o <<61, 34, 107, 34, 59>>

Entries ==
    { \* "r/": a directory entry
      [filename |-> <<114, 47>>, data |-> <<>>],
      \* "r/a.py": text with a secret
      [filename |-> <<114, 47, 97, 46, 112, 121>>, data |-> SecretText],
      \* "b.kt": the secret and a null byte: binary
      [filename |-> <<98, 46, 107, 116>>, data |-> SecretText \o <<0>>],
      \* "r": a file whose normalized path is empty
      [filename |-> <<114>>, data |-> SecretText],
      \* "o/c.js": the secret and a byte that is no UTF-8: text by ratio,
      \* not decodable
      [filename |-> <<111, 47, 99, 46, 106, 115>>, data |-> SecretText \o <<255>>],
      \* "r/d.ts": the secret and a two-byte character (e acute)
      [filename |-> <<114, 47, 100, 46, 116, 115>>, data |-> SecretText \o <<195, 169>>],
      \* "r/e": mostly high bytes: binary by ratio
      [filename |-> <<114, 47, 101>>, data |-> <<200, 201, 65>>] }

PushInit ==
    /\ zip_valid \in BOOLEAN
    /\ archive \in (IF zip_valid THEN SeqsUpTo(Entries, MaxEntries) ELSE {<<>>})
    /\ status_container \in BOOLEAN
    /\ pc = "call"
    /\ total_files = 0
    /\ success_count = 0
    /\ error_count = 0
    /\ current_file = 0
    /\ next_entry = 0
    /\ status_placeholder = "unbound"
    /\ creates = 0
    /\ html_url = "unset"
    /\ writes = <<>>
    /\ outcomes = <<>>
    /\ result = "none"

Init == PushInit /\ BinIdle /\ RxIdle /\ LlmIdle

Next ==
    \/ OpenAndCount
    \/ Provision
    \/ SkipDirectory
    \/ SkipEmptyPath(RepoName)
    \/ ProcessEntry(RepoName)
    \/ Finish

Spec == Init /\ [][Next]_vars

(***************************************************************************)
(* What the claims about a push speak of.                                   *)
(***************************************************************************)
\* entry k is a file whose normalized path is not empty
Uploadable(k) ==
    /\ archive[k].filename[Len(archive[k].filename)] # 47
    /\ _clean_file_path(archive[k].filename, RepoName) # <<>>

UploadableUpTo(n) == { k \in 1..n : Uploadable(k) }

Failures == {"remote_error", "read_error", "unbound_error"}

CountOutcomes(S) == Cardinality({ k \in 1..Len(outcomes) : outcomes[k] \in S })

\* the value of a base64 character, 64 for the padding =
B64Index(c) ==
    IF 65 <= c /\ c <= 90 THEN c - 65
    ELSE IF 97 <= c /\ c <= 122 THEN c - 97 + 26
    ELSE IF 48 <= c /\ c <= 57 THEN c - 48 + 52
    ELSE IF c = 43 THEN 62
    ELSE IF c = 47 THEN 63
    ELSE 64

\* the bytes a base64 text stands for
RECURSIVE B64Decode(_)
B64Decode(text) ==
    IF Len(text) < 4 THEN <<>>
    ELSE LET a == B64Index(text[1])
             b == B64Index(text[2])
             c == B64Index(text[3])
             d == B64Index(text[4])
             rest == B64Decode(SubSeq(text, 5, Len(text)))
         IN  IF c = 64 THEN <<a * 4 + b \div 16>>
             ELSE IF d = 64 THEN <<a * 4 + b \div 16, (b % 16) * 16 + c \div 4>>
             ELSE <<a * 4 + b \div 16, (b % 16) * 16 + c \div 4, (c % 4) * 64 + d>> \o rest

(***************************************************************************)
(* C1: after a successful repository creation, when the entry loop is over  *)
(* the success counter plus the failure counter is the number of            *)
(* non-directory entries with a non-empty normalized path: each such entry  *)
(* adds one to exactly one counter, directory entries and entries whose     *)
(* normalized path is empty add to neither.                                 *)
(***************************************************************************)
C1_CountersMatchEntries ==
    (pc \in {"iterate", "returned"} /\ html_url = "url") =>
        /\ success_count + error_count = Cardinality(UploadableUpTo(next_entry - 1))
        /\ success_count = CountOutcomes({"uploaded"})
        /\ error_count = CountOutcomes(Failures)
        /\ \A k \in 1..Len(outcomes) :
              outcomes[k] \in {"directory", "empty_path"} <=> ~Uploadable(k)
        /\ (pc = "returned" =>
               success_count + error_count = Cardinality(UploadableUpTo(Len(archive))))

\* a push of a directory, a file with an empty normalized path and a file
\* that failed has returned
C1_Witness_MixedArchive ==
    /\ pc = "returned"
    /\ result = "True"
    /\ CountOutcomes({"directory"}) = 1
    /\ CountOutcomes({"empty_path"}) = 1
    /\ CountOutcomes({"read_error"}) = 1
    /\ error_count = 1

(***************************************************************************)
(* C2: with the progress sink absent (status_container = None), repository  *)
(* creation succeeding and every remote write acknowledged, every           *)
(* non-directory entry with a non-empty normalized path is uploaded, one    *)
(* write each, and counted as succeeded, with no failure.                   *)
(***************************************************************************)
C2_SinkAbsentUploadsAll ==
    (/\ ~status_container
     /\ pc = "returned"
     /\ html_url = "url"
     /\ \A i \in 1..Len(writes) : writes[i].acked
     /\ CountOutcomes({"read_error", "remote_error"}) = 0)
    => /\ Len(writes) = Cardinality(UploadableUpTo(Len(archive)))
       /\ success_count = Cardinality(UploadableUpTo(Len(archive)))
       /\ error_count = 0

(***************************************************************************)
(* C3: when create_repository returns no address the push returns failure   *)
(* before the entry loop: no entry is processed, no file write is issued    *)
(* and neither counter moves.                                               *)
(***************************************************************************)
C3_CreateFailureAborts ==
    html_url = "None" =>
        /\ pc = "returned"
        /\ result = "False"
        /\ next_entry = 0
        /\ outcomes = <<>>
        /\ writes = <<>>
        /\ success_count = 0
        /\ error_count = 0

\* creation has failed for an archive that holds a file to upload
C3_Witness_CreateFailed ==
    /\ html_url = "None"
    /\ creates = 1
    /\ UploadableUpTo(Len(archive)) # {}
    /\ pc = "returned"

(***************************************************************************)
(* C4: when the bytes are no ZIP container the push fails for good before   *)
(* the repository is provisioned: no create-repository call and no file     *)
(* write is ever issued.                                                    *)
(***************************************************************************)
C4_BadZipNoWork ==
    ~zip_valid =>
        /\ creates = 0
        /\ html_url = "unset"
        /\ writes = <<>>
        /\ outcomes = <<>>
        /\ pc \in {"call", "raised"}
        /\ (pc = "raised" => result = "BadZipFile")

\* the first pass has raised on bytes that are no archive
C4_Witness_Raised ==
    /\ ~zip_valid
    /\ pc = "raised"
    /\ result = "BadZipFile"

(***************************************************************************)
(* C5: an entry that ends in a remote write error or an unexpected          *)
(* exception is recorded as failed (failure counter + 1, success counter    *)
(* unchanged) and does not abort the push: the loop goes on to the next     *)
(* entry, and the push returns only after every entry had its turn, with    *)
(* its normal completion result.                                            *)
(***************************************************************************)
C5_Step ==
    /\ (/\ Len(outcomes') = Len(outcomes) + 1
        /\ outcomes'[Len(outcomes')] \in Failures)
       => /\ error_count' = error_count + 1
          /\ success_count' = success_count
          /\ pc' = "iterate"
          /\ next_entry' = next_entry + 1
    /\ (pc = "iterate" /\ pc' = "returned")
       => /\ Len(outcomes') = Len(archive)
          /\ result' = "True"

C5_FailureIsolated == [][C5_Step]_vars

\* a push whose first entry failed remotely and whose second raised has
\* uploaded its third and returned
C5_Witness_FailThenUpload ==
    /\ pc = "returned"
    /\ result = "True"
    /\ Len(outcomes) = 3
    /\ outcomes[1] = "remote_error"
    /\ outcomes[2] = "read_error"
    /\ outcomes[3] = "uploaded"
    /\ error_count = 2
    /\ success_count = 1

(***************************************************************************)
(* C10: the payload committed for an entry handed to _process_file is       *)
(* base64 of the raw bytes, unredacted, when the bytes are classified       *)
(* binary or are no UTF-8, and else base64 of the decoded text redacted     *)
(* with the extension of the normalized path; a decode failure alone never  *)
(* makes the entry a failed one: the remote write alone decides.            *)
(***************************************************************************)
C10_PayloadRule ==
    /\ \A i \in 1..Len(writes) :
          LET w == writes[i]
              raw == archive[w.entry].data
              p == _clean_file_path(archive[w.entry].filename, RepoName)
          IN  /\ w.encoding = "base64"
              /\ B64Decode(w.content) =
                    IF RefIsBinary(raw) \/ ~utf8_decode(raw).ok
                    THEN raw
                    ELSE utf8_encode(_clean_code_content(utf8_decode(raw).text,
                                                         splitext_ext(p)))
              /\ b64encode(B64Decode(w.content)) = w.content
              /\ outcomes[w.entry] = IF w.acked THEN "uploaded" ELSE "remote_error"
    /\ \A k \in 1..Len(outcomes) :
          outcomes[k] \in {"uploaded", "remote_error"}
              <=> \E i \in 1..Len(writes) : writes[i].entry = k

\* a binary entry that holds the secret, an undecodable entry whose write
\* was acknowledged and a redacted text entry have been written
C10_Witness_ThreeKinds ==
    \E i, j, k \in 1..Len(writes) :
        /\ RefIsBinary(archive[writes[i].entry].data)
        /\ B64Decode(writes[i].content) = SecretText \o <<0>>
        /\ ~RefIsBinary(archive[writes[j].entry].data)
        /\ ~utf8_decode(archive[writes[j].entry].data).ok
        /\ writes[j].acked
        /\ outcomes[writes[j].entry] = "uploaded"
        /\ utf8_decode(archive[writes[k].entry].data).ok
        /\ B64Decode(writes[k].content) # archive[writes[k].entry].data

(***************************************************************************)
(* The model caller: get_completion and get_response                        *)
(* (src/main.py:153-219).                                                   *)
(***************************************************************************)
\* the content blocks a response may hold: a text block, and toolUse blocks
\* whose input is a generic_request, an application_design, or an
\* application_design that lacks "response"
TextBlock == [toolUse |-> FALSE, request_type |-> "none", input_keys |-> {}]

ToolBlocks ==
    { [toolUse |-> TRUE, request_type |-> "generic_request",
       input_keys |-> {"request_type", "response"}],
      [toolUse |-> TRUE, request_type |-> "application_design",
       input_keys |-> {"request_type", "entities", "response"}],
      [toolUse |-> TRUE, request_type |-> "application_design",
       input_keys |-> {"request_type", "entities"}] }

\* line 188: next((block for block in ... if 'toolUse' in block), None);
\* 0 stands for None
RECURSIVE FirstToolUse(_, _)
FirstToolUse(blocks, i) ==
    IF i > Len(blocks) THEN 0
    ELSE IF blocks[i].toolUse THEN i
    ELSE FirstToolUse(blocks, i + 1)

\* lines 196-199
SynthesizedGeneric == Ended("dict", "generic_request", "response_message")

ReturnsNone == Ended("None", "", "")

\* lines 181-204.  Subscripting None at line 190 raises TypeError, which the
\* except ClientError of line 201 does not catch.
get_completion(error, blocks) ==
    IF error THEN ReturnsNone
    ELSE LET content_block == FirstToolUse(blocks, 1)
         IN  IF content_block = 0
             THEN Ended("TypeError", "", "")
             ELSE LET tool_result_dict == blocks[content_block]
                  IN  IF "response" \in tool_result_dict.input_keys
                      THEN Ended("dict", tool_result_dict.request_type, "tool_input")
                      ELSE SynthesizedGeneric

\* lines 206-219: a raised Exception is printed and the function falls off
\* its end, returning None
get_response(error, blocks) ==
    LET response == get_completion(error, blocks)
    IN  IF response.kind \notin {"dict", "None"} THEN ReturnsNone
        ELSE IF response.kind = "dict" THEN response
        ELSE ReturnsNone

LlmInit ==
    /\ llm_error \in BOOLEAN
    /\ llm_blocks \in SeqsUpTo({TextBlock} \cup ToolBlocks, MaxBlocks)
    /\ llm_pc = "call"
    /\ llm_completion = NoValue
    /\ llm_response = NoValue

CallGetCompletion ==
    /\ llm_pc = "call"
    /\ llm_completion' = get_completion(llm_error, llm_blocks)
    /\ llm_pc' = "completed"
    /\ UNCHANGED <<llm_error, llm_blocks, llm_response, bin_vars, rx_vars, push_vars>>

CallGetResponse ==
    /\ llm_pc = "call"
    /\ llm_response' = get_response(llm_error, llm_blocks)
    /\ llm_pc' = "responded"
    /\ UNCHANGED <<llm_error, llm_blocks, llm_completion, bin_vars, rx_vars, push_vars>>

LlmNext == CallGetCompletion \/ CallGetResponse

InitLlm == LlmInit /\ BinIdle /\ RxIdle /\ PushIdle

SpecLlm == InitLlm /\ [][LlmNext]_vars

(***************************************************************************)
(* C9: when the response holds no content block with a tool invocation,     *)
(* get_completion returns a synthesized generic_request that wraps the raw  *)
(* response message; it neither raises nor returns None; and the same holds *)
(* for get_response.                                                        *)
(***************************************************************************)
C9_NoToolUseSynthesized ==
    (/\ ~llm_error
     /\ \A i \in 1..Len(llm_blocks) : ~llm_blocks[i].toolUse)
    => /\ (llm_pc = "completed" =>
              llm_completion = Ended("dict", "generic_request", "response_message"))
       /\ (llm_pc = "responded" =>
              llm_response = Ended("dict", "generic_request", "response_message"))

(***************************************************************************)
(* The redactor applied to inputs drawn from bounded sets.                  *)
(***************************************************************************)
\* the pieces free texts are made of: authKey = space " ' ; line-feed
Pieces == {sensitive_var, <<61>>, <<32>>, <<34>>, <<39>>, <<59>>, <<10>>}

RECURSIVE Flatten(_)
Flatten(ss) == IF ss = <<>> THEN <<>> ELSE Head(ss) \o Flatten(Tail(ss))

FreeTexts == {Flatten(ps) : ps \in SeqsUpTo(Pieces, MaxPieces)}

\* assignments authKey<ws>=<ws><value>: quoted, mismatched, unclosed, bare,
\* followed by a semicolon, holding a space or a line feed
Values ==
    { <<34, 107, 34>>, <<39, 107, 39>>, <<34, 107, 39>>, <<34, 107>>,
      <<107>>, <<34, 107, 34, 59>>, <<107, 59>>, <<34, 97, 32, 98, 34>>,
      <<34, 97, 10, 98, 34>> }

Assignments ==
    { sensitive_var \o w1 \o <<61>> \o w2 \o v :
        w1 \in {<<>>, <<32>>}, w2 \in {<<>>, <<32, 10>>}, v \in Values }

\* one assignment, or two with code between them
AssignTexts ==
    {<<120>> \o a \o <<10, 121>> : a \in Assignments}
        \cup {a \o s \o b : a \in Assignments, b \in Assignments,
                            s \in {<<32>>, <<10, 120, 59>>}}

\* the five registered hints, and two that are not: ".md" and ""
Hints == {ext_kt, ext_java, ext_py, ext_js, ext_ts, <<46, 109, 100>>, <<>>}

RxInit ==
    /\ rx_content \in FreeTexts \cup AssignTexts
    /\ rx_ext \in Hints
    /\ rx_pc = "input"
    /\ rx_once = <<>>
    /\ rx_twice = <<>>

Redact ==
    /\ rx_pc = "input"
    /\ rx_once' = _clean_code_content(rx_content, rx_ext)
    /\ rx_pc' = "once"
    /\ UNCHANGED <<rx_content, rx_ext, rx_twice, bin_vars, push_vars, llm_vars>>

RedactAgain ==
    /\ rx_pc = "once"
    /\ rx_twice' = _clean_code_content(rx_once, rx_ext)
    /\ rx_pc' = "twice"
    /\ UNCHANGED <<rx_content, rx_ext, rx_once, bin_vars, push_vars, llm_vars>>

RxNext == Redact \/ RedactAgain

InitRedact == RxInit /\ BinIdle /\ PushIdle /\ LlmIdle

SpecRedact == InitRedact /\ [][RxNext]_vars

(***************************************************************************)
(* C6: redaction is idempotent: redacting the redacted text again, with the *)
(* same hint, gives the redacted text, also when the authKey value is       *)
(* followed at once by a character such as a semicolon.                     *)
(***************************************************************************)
C6_RedactIdempotent ==
    rx_pc = "twice" => rx_twice = rx_once

(***************************************************************************)
(* The matches of the pattern, stated position by position.                 *)
(***************************************************************************)
SetMin(S) == CHOOSE x \in S : \A y \in S : x <= y

SetMax(S) == CHOOSE x \in S : \A y \in S : x >= y

\* where the value of an assignment that starts at s starts: authKey, then
\* whitespace only, then =, then whitespace only, then a non-whitespace
RefValueStarts(t, s) ==
    LET n == Len(sensitive_var)
    IN  IF s + n - 1 > Len(t) \/ SubSeq(t, s, s + n - 1) # sensitive_var THEN {}
        ELSE { v \in (s + n + 1)..Len(t) :
                 /\ ~IsSpace(t[v])
                 /\ \E j \in (s + n)..(v - 1) :
                       /\ t[j] = 61
                       /\ \A k \in (s + n)..(j - 1) : IsSpace(t[k])
                       /\ \A k \in (j + 1)..(v - 1) : IsSpace(t[k]) }

\* one past the value that starts at v: up to the nearest quote on the same
\* line when the value opens with a quote and has one, else the whole run of
\* non-whitespace
RefValueEnd(t, v) ==
    LET closers == { q \in (v + 1)..Len(t) :
                       IsQuote(t[q]) /\ \A k \in (v + 1)..(q - 1) : t[k] # 10 }
        run == { r \in v..Len(t) : \A k \in v..r : ~IsSpace(t[k]) }
    IN  IF IsQuote(t[v]) /\ closers # {} THEN SetMin(closers) + 1
        ELSE SetMax(run) + 1

\* every place the pattern matches: [s (start), v (start of the value),
\* e (one past the end)]
RefCandidates(t) ==
    { [s |-> s, v |-> v, e |-> RefValueEnd(t, v)] :
        <<s, v>> \in { <<s1, v1>> \in (1..Len(t)) \X (1..Len(t)) :
                         s1 < v1 /\ t[s1] = sensitive_var[1]
                                 /\ v1 \in RefValueStarts(t, s1) } }

\* the matches taken among C: leftmost first, none starting inside an earlier one
RECURSIVE RefTaken(_, _)
RefTaken(C, from) ==
    LET c == { m \in C : m.s >= from }
    IN  IF c = {} THEN {}
        ELSE LET first == CHOOSE m \in c : \A o \in c : m.s <= o.s
             IN  {first} \cup RefTaken(C, first.e)

RefMatches(t) == RefTaken(RefCandidates(t), 1)

\* the replacement expression registered for each hint of the fixed set
RefReplacement ==
    [ h \in {ext_kt, ext_java, ext_py, ext_js, ext_ts} |->
        IF h \in {ext_kt, ext_java} THEN repl_jvm
        ELSE IF h = ext_py THEN repl_py
        ELSE repl_node ]

RECURSIVE SumOver(_, _)
SumOver(S, f) ==
    IF S = {} THEN 0
    ELSE LET x == CHOOSE y \in S : TRUE
         IN  f[x] + SumOver(S \ {x}, f)

\* how far position i of the input has moved in the output, M being the
\* matches taken and r the replacement: the growth of every value that ends
\* at or before i
RefShift(M, r, i) ==
    SumOver({ m \in M : m.e <= i }, [ m \in M |-> Len(r) - (m.e - m.v) ])

RefInsideValue(M, i) == \E m \in M : m.v <= i /\ i < m.e

(***************************************************************************)
(* C8: for a hint of the fixed set, the value of every authKey assignment   *)
(* match is replaced by the expression registered for the hint, each        *)
(* match's left-hand side is kept verbatim and every character outside the  *)
(* matched values is unchanged; for any other hint the text is unchanged.   *)
(***************************************************************************)
C8_RedactFrame ==
    rx_pc = "once" =>
        IF rx_ext \in DOMAIN RefReplacement
        THEN LET t == rx_content
                 r == RefReplacement[rx_ext]
                 M == RefMatches(t)
             IN  /\ Len(rx_once) = Len(t) + RefShift(M, r, Len(t) + 1)
                 /\ \A i \in 1..Len(t) :
                       ~RefInsideValue(M, i) => rx_once[i + RefShift(M, r, i)] = t[i]
                 /\ \A m \in M :
                       LET d == RefShift(M, r, m.s)
                       IN  /\ SubSeq(rx_once, m.s + d, m.v - 1 + d) = SubSeq(t, m.s, m.v - 1)
                           /\ SubSeq(rx_once, m.v + d, m.v + d + Len(r) - 1) = r
        ELSE rx_once = rx_content

\* a text with two matches and code between them has been redacted
C8_Witness_TwoMatches ==
    /\ rx_pc = "once"
    /\ rx_ext = ext_py
    /\ \E i \in 1..Len(rx_content) : rx_content[i] = 120
    /\ rx_once # rx_content
    /\ Cardinality(RefMatches(rx_content)) = 2

(***************************************************************************)
(* The classifier applied to inputs drawn from bounded sets.                *)
(***************************************************************************)
\* 0x00, the three control characters, both ends of 32..127 and their
\* neighbours, and a high byte
ByteSamples == {0, 9, 10, 13, 31, 32, 127, 128, 255}

\* k text bytes then m bytes that are neither text nor null: every ratio k/(k+m)
RatioInputs ==
    {Repeat(65, k) \o Repeat(200, m) : k \in 0..MaxLong, m \in 0..MaxLong}

BinInputs ==
    SeqsUpTo(ByteSamples, MaxShort)
        \cup {s \in RatioInputs : Len(s) <= MaxLong}
        \cup {Append(s, 0) : s \in {t \in RatioInputs : Len(t) < MaxLong}}

BinInit ==
    /\ bin_content \in BinInputs
    /\ bin_pc = "input"
    /\ bin_result = FALSE

Classify ==
    /\ bin_pc = "input"
    /\ bin_result' = _is_binary(bin_content)
    /\ bin_pc' = "classified"
    /\ UNCHANGED <<bin_content, rx_vars, push_vars, llm_vars>>

BinNext == Classify

InitBinary == BinInit /\ RxIdle /\ PushIdle /\ LlmIdle

SpecBinary == InitBinary /\ [][BinNext]_vars

(***************************************************************************)
(* C7: _is_binary agrees with the reference rule on every byte sequence:    *)
(* true if any byte is 0x00; otherwise, for non-empty input, true exactly   *)
(* when (bytes in 32..127 or equal to 9, 10, 13) / length < 0.7, so a ratio *)
(* of exactly 0.7 is text; false for the empty sequence.                    *)
(***************************************************************************)
C7_IsBinaryMatchesRule ==
    bin_pc = "classified" =>
        /\ bin_result = RefIsBinary(bin_content)
        /\ (bin_content = <<>> => bin_result = FALSE)
        /\ (/\ Len(bin_content) > 0
            /\ \A i \in 1..Len(bin_content) : bin_content[i] # 0
            /\ 10 * RefTextCount(bin_content) = 7 * Len(bin_content)
            => bin_result = FALSE)

\* a 10-byte input with exactly 7 text bytes and no null has been classified as text
C7_Witness_ExactBoundary ==
    /\ bin_pc = "classified"
    /\ Len(bin_content) = 10
    /\ RefTextCount(bin_content) = 7
    /\ \A i \in 1..Len(bin_content) : bin_content[i] # 0
    /\ bin_result = FALSE

(***************************************************************************)
(* Pushes whose entry names are drawn from bounded sets of paths, next to   *)
(* the archives above, with the progress sink present.                      *)
(***************************************************************************)
MaxPathPieces == 5

\* "r" (the repository name), "/", "o" and "."
PathPieces == {<<114>>, <<47>>, <<111>>, <<46>>}

PathInputs ==
    {Flatten(ps) : ps \in SeqsUpTo(PathPieces, MaxPathPieces)} \ {<<>>}

\* archives of one entry named by a drawn path
PathArchives == {<<[filename |-> p, data |-> SecretText]>> : p \in PathInputs}

InitPath ==
    /\ zip_valid = TRUE
    /\ archive \in PathArchives \cup SeqsUpTo(Entries, MaxEntries)
    /\ status_container = TRUE
    /\ pc = "call"
    /\ total_files = 0
    /\ success_count = 0
    /\ error_count = 0
    /\ current_file = 0
    /\ next_entry = 0
    /\ status_placeholder = "unbound"
    /\ creates = 0
    /\ html_url = "unset"
    /\ writes = <<>>
    /\ outcomes = <<>>
    /\ result = "none"
    /\ BinIdle /\ RxIdle /\ LlmIdle

SpecPath == InitPath /\ [][Next]_vars

\* the position of the first slash of p, Len(p) + 1 when it has none
RefFirstSlash(p) ==
    SetMin({i \in 1..Len(p) : p[i] = 47} \cup {Len(p) + 1})

\* p without its first segment and the slash after it when that segment is
\* repo_name, else p
RefNormalized(p, repo_name) ==
    LET n == RefFirstSlash(p)
    IN  IF SubSeq(p, 1, n - 1) = repo_name
        THEN SubSeq(p, n + 1, Len(p))
        ELSE p

(***************************************************************************)
(* C11: _clean_file_path removes the first slash-separated segment of a     *)
(* path exactly when that segment equals the repository name and returns    *)
(* the path unchanged otherwise; every entry skipped for an empty path has  *)
(* an empty normalized path, and every remote write of a push targets the   *)
(* normalized path of its entry, never the archive path when the two        *)
(* differ.                                                                  *)
(***************************************************************************)
C11_WritesTargetNormalizedPath ==
    /\ \A k \in 1..Len(archive) :
          LET f == archive[k].filename
              n == RefFirstSlash(f)
              cleaned == _clean_file_path(f, RepoName)
          IN  /\ cleaned = RefNormalized(f, RepoName)
              /\ cleaned # f <=> SubSeq(f, 1, n - 1) = RepoName
              /\ cleaned # f => f = RepoName \/ f = RepoName \o <<47>> \o cleaned
    /\ \A k \in 1..Len(outcomes) :
          outcomes[k] = "empty_path"
              <=> /\ ~is_dir(archive[k])
                  /\ RefNormalized(archive[k].filename, RepoName) = <<>>
    /\ \A i \in 1..Len(writes) :
          LET w == writes[i]
              f == archive[w.entry].filename
          IN  /\ w.path = RefNormalized(f, RepoName)
              /\ w.path # <<>>
              /\ RefNormalized(f, RepoName) # f => w.path # f

\* a push has written one entry under its name without the leading
\* repository segment and another, led by a different segment, under its
\* archive name
C11_Witness_StrippedAndKept ==
    \E i, j \in 1..Len(writes) :
        LET f == archive[writes[i].entry].filename
            g == archive[writes[j].entry].filename
        IN  /\ f = RepoName \o <<47>> \o writes[i].path
            /\ writes[i].path # f
            /\ \E s \in 1..Len(g) : g[s] = 47
            /\ writes[j].path = g

(***************************************************************************)
(* C12: within one push the remote writes are issued strictly in archive    *)
(* order and only after the create-repository call has succeeded: the       *)
(* write of an earlier-listed entry comes before the write of a later one,  *)
(* at most one write is issued per entry, every write belongs to an entry   *)
(* the loop has already passed, and a step issues at most one write, for    *)
(* the entry the loop is at.                                                *)
(***************************************************************************)
C12_Step ==
    /\ writes' # writes =>
          /\ pc = "iterate"
          /\ html_url = "url"
          /\ creates = 1
          /\ Len(writes') = Len(writes) + 1
          /\ SubSeq(writes', 1, Len(writes)) = writes
          /\ writes'[Len(writes')].entry = next_entry
          /\ next_entry' = next_entry + 1
    /\ (writes # <<>> \/ pc = "iterate") =>
          /\ creates' = creates
          /\ html_url' = html_url
          /\ next_entry' >= next_entry
    /\ \A i \in 1..Len(writes') : writes'[i].entry < next_entry'
    /\ \A i, j \in 1..Len(writes') :
          i < j => writes'[i].entry < writes'[j].entry

C12_WritesInArchiveOrder == [][C12_Step]_vars

\* three entries have been written one after the other, the first write
\* having failed and not been issued again
C12_Witness_ThreeWritesInOrder ==
    /\ Len(writes) = 3
    /\ writes[1].entry = 1 /\ writes[2].entry = 2 /\ writes[3].entry = 3
    /\ ~writes[1].acked
    /\ outcomes = <<"remote_error", "uploaded", "uploaded">>
    /\ creates = 1
    /\ html_url = "url"
    /\ result = "True"

====
